---- MODULE Spec2Model ----
(***************************************************************************)
(* A model of run-command.c: start_command / finish_command / run_command  *)
(* (the process launcher), wait_or_whine (the exit translator) and         *)
(* start_async / finish_async (the async worker pipeline).                 *)
(*                                                                         *)
(* Four specifications share the module:                                   *)
(*   SpecWait   wait_or_whine against every waitpid outcome                *)
(*   Spec       one run_command(cmd) call: parent and forked child         *)
(*   SpecAsync  start_async, a draining caller, finish_async               *)
(*   SpecReap   several launches and reaps over a process table whose      *)
(*              process ids the operating system may reuse                 *)
(***************************************************************************)
EXTENDS Integers, Sequences, FiniteSets, TLC

(* ---- bounds of the model ---- *)
MaxEintr == 2
MaxFd == 12

(* ---- run-command.h:4-12 ---- *)
ERR_RUN_COMMAND_FORK == 10000
ERR_RUN_COMMAND_EXEC == 10001
ERR_RUN_COMMAND_PIPE == 10002
ERR_RUN_COMMAND_WAITPID == 10003
ERR_RUN_COMMAND_WAITPID_WRONG_PID == 10004
ERR_RUN_COMMAND_WAITPID_SIGNAL == 10005
ERR_RUN_COMMAND_WAITPID_NOEXIT == 10006

(***************************************************************************)
(* Wait statuses are the integers waitpid stores: exit code n is n * 256,  *)
(* death by signal s is s (plus 128 when a core was dumped), a stopped     *)
(* process is s * 256 + 127.                                               *)
(***************************************************************************)
W_EXITCODE(ret, sig) == (ret % 256) * 256 + sig

WIFEXITED(status) == status % 128 = 0

WIFSIGNALED(status) == (status % 128) # 0 /\ (status % 128) # 127

WEXITSTATUS(status) == (status \div 256) % 256

(* A function's return value: <<>> while it has not returned, <<v>> after. *)
NoRet == <<>>

Ret(v) == <<v>>

(* Faulty variant: the id comparison made before the error test. *)
wait_or_whine_prio(pid, waiting, errno, status) ==
    IF waiting # pid THEN Ret(-ERR_RUN_COMMAND_WAITPID_WRONG_PID)
    ELSE IF waiting < 0
         THEN IF errno = "EINTR" THEN NoRet
              ELSE Ret(-ERR_RUN_COMMAND_WAITPID)
    ELSE IF WIFSIGNALED(status) THEN Ret(-ERR_RUN_COMMAND_WAITPID_SIGNAL)
    ELSE IF ~WIFEXITED(status) THEN Ret(-ERR_RUN_COMMAND_WAITPID_NOEXIT)
    ELSE IF WEXITSTATUS(status) # 0 THEN Ret(-WEXITSTATUS(status))
    ELSE Ret(0)

(* Faulty variant: the status is not tested for a signal or a stop before  *)
(* its exit-code bits are used.                                            *)
wait_or_whine_nostatus(pid, waiting, errno, status) ==
    IF waiting < 0
    THEN IF errno = "EINTR" THEN NoRet
         ELSE Ret(-ERR_RUN_COMMAND_WAITPID)
    ELSE IF waiting # pid THEN Ret(-ERR_RUN_COMMAND_WAITPID_WRONG_PID)
    ELSE IF WEXITSTATUS(status) # 0 THEN Ret(-WEXITSTATUS(status))
    ELSE Ret(0)

(***************************************************************************)
(* One iteration of wait_or_whine's loop on the result of                  *)
(* waitpid(pid, &status, 0): NoRet stands for `continue`.                  *)
(***************************************************************************)
wait_or_whine(pid, waiting, errno, status) ==
    IF waiting < 0
    THEN IF errno = "EINTR" THEN NoRet
         ELSE Ret(-ERR_RUN_COMMAND_WAITPID)
    ELSE IF waiting # pid THEN Ret(-ERR_RUN_COMMAND_WAITPID_WRONG_PID)
    ELSE IF WIFSIGNALED(status) THEN Ret(-ERR_RUN_COMMAND_WAITPID_SIGNAL)
    ELSE IF ~WIFEXITED(status) THEN Ret(-ERR_RUN_COMMAND_WAITPID_NOEXIT)
    ELSE IF WEXITSTATUS(status) # 0 THEN Ret(-WEXITSTATUS(status))
    ELSE Ret(0)


(***************************************************************************)
(* Descriptor tables.  A table maps each descriptor number to the open     *)
(* file it refers to, or to Closed.  pipe and open hand out the lowest     *)
(* free numbers, as the kernel does.                                       *)
(***************************************************************************)
Fds == 0..MaxFd

Closed == "closed"

IsOpen(t, fd) == fd \in Fds /\ t[fd] # Closed

FreeFds(t) == {fd \in Fds : t[fd] = Closed}

Min(S) == CHOOSE x \in S : \A y \in S : x <= y

close(t, fd) == IF IsOpen(t, fd) THEN [t EXCEPT ![fd] = Closed] ELSE t

dup2(t, old, new) ==
    IF IsOpen(t, old) /\ new \in Fds THEN [t EXCEPT ![new] = t[old]] ELSE t

(* open(path, O_RDWR): the new descriptor, or -1 when the table is full *)
open_fd(t) == IF FreeFds(t) = {} THEN -1 ELSE Min(FreeFds(t))

open(t, file) ==
    IF open_fd(t) < 0 THEN t ELSE [t EXCEPT ![open_fd(t)] = file]

(* pipe(fd): fd[0] is the read end, fd[1] the write end *)
pipe_fds(t) ==
    LET r == Min(FreeFds(t)) IN <<r, Min(FreeFds(t) \ {r})>>

pipe(t, s) ==
    LET p == pipe_fds(t) IN [t EXCEPT ![p[1]] = s \o ".r", ![p[2]] = s \o ".w"]

pipe_possible(t) == Cardinality(FreeFds(t)) >= 2

(* run-command.c:5-9; fd[0] and fd[1] are p[1] and p[2] here *)
close_pair(t, p) == close(close(t, p[1]), p[2])

(* run-command.c:11-16 *)
dup_devnull(t, to) ==
    LET fd == open_fd(t) IN close(dup2(open(t, "devnull"), fd, to), fd)

NoPipe == <<-1, -1>>

(***************************************************************************)
(* Environment entries are strings of characters.  strchr(e, '=') finds    *)
(* the first '='; putenv sets the name before it to the text after it,     *)
(* unsetenv removes the name.  An environment is a set of bindings.        *)
(***************************************************************************)
strchr(e, c) ==
    IF \E i \in 1..Len(e) : e[i] = c
    THEN Min({i \in 1..Len(e) : e[i] = c})
    ELSE 0

unsetenv(env, name) == {b \in env : b.key # name}

putenv(env, e) ==
    LET i == strchr(e, "=") IN
    unsetenv(env, SubSeq(e, 1, i - 1))
        \cup {[key |-> SubSeq(e, 1, i - 1), val |-> SubSeq(e, i + 1, Len(e))]}

(* Faulty variant: a name already bound keeps its value, as setenv with     *)
(* overwrite 0 would do.                                                   *)
apply_env_entry_keep(env, e) ==
    IF strchr(e, "=") # 0
    THEN IF \E b \in env : b.key = SubSeq(e, 1, strchr(e, "=") - 1)
         THEN env ELSE putenv(env, e)
    ELSE unsetenv(env, e)

(* run-command.c:100-103, the body of the loop over cmd->env *)
apply_env_entry(env, e) ==
    IF strchr(e, "=") # 0 THEN putenv(env, e) ELSE unsetenv(env, e)

(* The fatal handler die() ends the calling process with this exit code.   *)
DieStatus == 128

(***************************************************************************)
(* The launcher: one run_command(cmd) call.                                *)
(*   cmd      the caller's struct child_process (parent address space)     *)
(*   cmd0     its value on entry                                           *)
(*   pfd      the parent's descriptor table                                *)
(*   ppc      the parent's position in start_command / run_command         *)
(*   need_in, need_out, need_err, fdin, fdout, fderr                       *)
(*            start_command's locals (copied into the child by fork)       *)
(*   code     start_command's return value, fin finish_command's, run      *)
(*            run_command's                                                *)
(*   nwait    waitpid calls made, eintr those that ended in EINTR          *)
(*   cpc      the child's position, ccmd its copy of *cmd, cfd its         *)
(*            descriptor table, ccwd its working directory, cenv its       *)
(*            environment, applied the entries it has applied, tried the   *)
(*            exec mechanisms it has attempted, died whether it reached    *)
(*            die(), cstatus its wait status once terminated               *)
(*   call     the convenience entry point the caller went through and its  *)
(*            arguments (run-command.c:180-202), if any                    *)
(*   penv, pcwd  the parent's own environment and working directory        *)
(***************************************************************************)
VARIABLES cmd, cmd0, pfd, ppc, need_in, need_out, need_err, fdin, fdout,
          fderr, code, fin, run, nwait, eintr, call, penv, pcwd,
          cpc, ccmd, cfd, ccwd, cenv, applied, tried, died, cstatus

parentVars == <<cmd, cmd0, pfd, ppc, need_in, need_out, need_err, fdin, fdout,
                fderr, code, fin, run, nwait, eintr, call, penv, pcwd>>

childVars == <<cpc, ccmd, cfd, ccwd, cenv, applied, tried, died, cstatus>>

launchVars == <<parentVars, childVars>>

(***************************************************************************)
(* State of SpecWait: wait_or_whine(wpid) in isolation.                    *)
(*   wpc its position, wlast the last waitpid outcome, wret its return     *)
(*   value, weintr the EINTR results retried so far                        *)
(***************************************************************************)
VARIABLES wpid, wpc, wlast, wret, weintr

waitVars == <<wpid, wpc, wlast, wret, weintr>>

(***************************************************************************)
(* State of SpecAsync: start_async(async), a caller that reads async->out  *)
(* to end-of-stream, finish_async(async).                                  *)
(*   async     the caller's struct async: out, pid                         *)
(*   apc       the caller's position; aret start_async's return value,     *)
(*             afin finish_async's; aeintr EINTR results of its waitpid    *)
(*   pipe_out  start_async's local                                         *)
(*   afd, kfd  descriptor tables of the caller and of the worker           *)
(*   buf       bytes in the pipe, cap the number of bytes it can hold      *)
(*   kpc       the worker's position, kstatus its wait status              *)
(*   data      the bytes the producer writes, towrite those still to be    *)
(*             written, pclose whether it closes its descriptor before     *)
(*             returning, prc the value it returns                         *)
(*   got       the bytes the caller has read, eof whether it has read      *)
(*             end-of-stream                                               *)
(***************************************************************************)
VARIABLES async, apc, aret, afin, aeintr, pipe_out, afd, kfd, buf, cap, kpc,
          kstatus, data, towrite, pclose, prc, got, eof

asyncVars == <<async, apc, aret, afin, aeintr, pipe_out, afd, kfd, buf, cap,
               kpc, kstatus, data, towrite, pclose, prc, got, eof>>

(***************************************************************************)
(* State of SpecReap: the caller's children and its child_process structs. *)
(*   ptab     per process id: free, or a running or ended child of the     *)
(*            caller, its wait status, and the launch that forked it       *)
(*   handles  per child_process: pid (cmd->pid), and how often             *)
(*            finish_command has reaped on it                              *)
(*   last     the last finish_command call: on which struct, whether its   *)
(*            start_command had returned 0, whether that struct had been   *)
(*            reaped before, whether every finish_command call so far was  *)
(*            the first on a struct whose start_command had returned 0,    *)
(*            the value returned, and the launch whose process the call    *)
(*            reaped (0: none)                                             *)
(***************************************************************************)
VARIABLES ptab, handles, last

reapVars == <<ptab, handles, last>>

vars == <<launchVars, waitVars, asyncVars, reapVars>>

notLaunch == <<waitVars, asyncVars, reapVars>>

notWait == <<launchVars, asyncVars, reapVars>>

notAsync == <<launchVars, waitVars, reapVars>>

notReap == <<launchVars, waitVars, asyncVars>>

(* The parent's table on entry: the three standard streams, and the files  *)
(* the caller opened for the explicit descriptors it put into cmd.         *)
StdFds ==
    [fd \in Fds |-> IF fd = 0 THEN "stdin0"
                    ELSE IF fd = 1 THEN "stdout0"
                    ELSE IF fd = 2 THEN "stderr0"
                    ELSE Closed]

EntryFds(c) ==
    [fd \in Fds |-> IF fd > 2 /\ fd = c.in THEN "xin"
                    ELSE IF fd > 2 /\ fd = c.out THEN "xout"
                    ELSE IF fd > 2 /\ fd = c.err THEN "xerr"
                    ELSE StdFds[fd]]

(* Field values tried: negative (auto-pipe), the zero memset leaves, and a *)
(* descriptor the caller opened, which is above the standard three (the    *)
(* caller runs with 0, 1 and 2 open); 1 for out, which the code treats as  *)
(* 0.                                                                      *)
InValues == {-1, 0, 3}

OutValues == {-1, 0, 1, 4}

ErrValues == {-1, 0, 5}

NullDir == "NULL"

DirValues == {NullDir, "/work", "/nonexistent"}

(* chdir(dir) returns nonzero *)
chdir_fails(dir) == dir = "/nonexistent"

(* cmd->env: a null pointer, or a pointer at offset off into a            *)
(* null-terminated array arr of entries.                                   *)
NullEnv == [null |-> TRUE, arr |-> <<>>, off |-> 0]

EnvEntries == {<<"F", "=", "b">>, <<"F">>}

MaxEnv == 1

EnvValues ==
    {NullEnv} \cup
    {[null |-> FALSE, arr |-> a, off |-> 0] :
        a \in UNION {[1..n -> EnvEntries] : n \in 0..MaxEnv}}

InheritedEnv == {[key |-> <<"F">>, val |-> <<"o">>]}

InheritedCwd == "/home"

ForkPids == {2}

(* run_command called on a struct the caller filled in itself *)
NoCall == [fn |-> "run_command", opt |-> 0, dir |-> NullDir, env |-> NullEnv]

(* How a program that was exec'ed ends: exit codes, or death by a signal. *)
ProgramStatuses == {W_EXITCODE(0, 0), W_EXITCODE(1, 0), W_EXITCODE(42, 0),
                    W_EXITCODE(255, 0), W_EXITCODE(0, 9)}

ChildInit ==
    /\ cpc = "none"
    /\ ccmd = cmd
    /\ cfd = [fd \in Fds |-> Closed]
    /\ ccwd = InheritedCwd
    /\ cenv = InheritedEnv
    /\ applied = <<>>
    /\ tried = {}
    /\ died = FALSE
    /\ cstatus = 0

LaunchInit ==
    /\ cmd \in [argv : {<<"prog">>}, pid : {0}, in : InValues, out : OutValues,
                err : ErrValues, dir : DirValues, env : EnvValues,
                no_stdin : BOOLEAN, no_stdout : BOOLEAN, no_stderr : BOOLEAN,
                git_cmd : BOOLEAN, stdout_to_stderr : BOOLEAN]
    /\ cmd0 = cmd
    /\ pfd = EntryFds(cmd)
    /\ ppc = "need_in"
    /\ need_in = FALSE
    /\ need_out = FALSE
    /\ need_err = FALSE
    /\ fdin = NoPipe
    /\ fdout = NoPipe
    /\ fderr = NoPipe
    /\ code = NoRet
    /\ fin = NoRet
    /\ run = NoRet
    /\ nwait = 0
    /\ eintr = 0
    /\ call = NoCall
    /\ penv = InheritedEnv
    /\ pcwd = InheritedCwd
    /\ ChildInit

(* run-command.c:23, 30-32, 42 *)
NeedIn(c) == ~c.no_stdin /\ c.in < 0

(* Faulty variant of need_out: stdout_to_stderr not consulted. *)
NeedOut_noredirect(c) == ~c.no_stdout /\ c.out < 0

NeedOut(c) == ~c.no_stdout /\ ~c.stdout_to_stderr /\ c.out < 0

(* Faulty variant of need_err: no_stderr not consulted. *)
NeedErr_ignoreflag(c) == c.err < 0

(* run-command.c:42 *)
NeedErr(c) == ~c.no_stderr /\ c.err < 0

(* Faulty variant: a child that has died is reported to the caller of      *)
(* start_command as an exec error.                                         *)
StartReturns_execerr(v) ==
    /\ code' = Ret(IF v = 0 /\ died THEN -ERR_RUN_COMMAND_EXEC ELSE v)
    /\ ppc' = "run_check"

(* start_command returns v to run_command (run-command.c:163) *)
StartReturns(v) ==
    /\ code' = Ret(v)
    /\ ppc' = "run_check"

(* run-command.c:23-28 *)
StartNeedIn ==
    /\ ppc = "need_in"
    /\ need_in' = NeedIn(cmd)
    /\ \/ /\ ~NeedIn(cmd)
          /\ ppc' = "need_out"
          /\ UNCHANGED <<cmd, pfd, fdin, code>>
       \/ /\ NeedIn(cmd)
          /\ pipe_possible(pfd)
          /\ fdin' = pipe_fds(pfd)
          /\ pfd' = pipe(pfd, "in")
          /\ cmd' = [cmd EXCEPT !.in = pipe_fds(pfd)[2]]
          /\ ppc' = "need_out"
          /\ UNCHANGED code
       \/ /\ NeedIn(cmd)
          /\ StartReturns(-ERR_RUN_COMMAND_PIPE)
          /\ UNCHANGED <<cmd, pfd, fdin>>
    /\ UNCHANGED <<call, penv, pcwd>>
    /\ UNCHANGED <<cmd0, need_out, need_err, fdout, fderr, fin, run, nwait, eintr>>
    /\ UNCHANGED childVars
    /\ UNCHANGED notLaunch

(* Faulty variant: only fdin[0] of the stdin pipe is closed. *)
Rollback_leaky(t, ni, no, ne) ==
    LET t1 == IF ni THEN close(t, fdin[1]) ELSE t
        t2 == IF no THEN close_pair(t1, fdout) ELSE t1
    IN IF ne THEN close_pair(t2, fderr) ELSE t2

(* run-command.c:35-36, 45-48, 56-61: the rollback of the pipes made so far *)
Rollback(t, ni, no, ne) ==
    LET t1 == IF ni THEN close_pair(t, fdin) ELSE t
        t2 == IF no THEN close_pair(t1, fdout) ELSE t1
    IN IF ne THEN close_pair(t2, fderr) ELSE t2

(* run-command.c:30-40 *)
StartNeedOut ==
    /\ ppc = "need_out"
    /\ need_out' = NeedOut(cmd)
    /\ \/ /\ ~NeedOut(cmd)
          /\ ppc' = "need_err"
          /\ UNCHANGED <<cmd, pfd, fdout, code>>
       \/ /\ NeedOut(cmd)
          /\ pipe_possible(pfd)
          /\ fdout' = pipe_fds(pfd)
          /\ pfd' = pipe(pfd, "out")
          /\ cmd' = [cmd EXCEPT !.out = pipe_fds(pfd)[1]]
          /\ ppc' = "need_err"
          /\ UNCHANGED code
       \/ /\ NeedOut(cmd)
          /\ pfd' = Rollback(pfd, need_in, FALSE, FALSE)
          /\ StartReturns(-ERR_RUN_COMMAND_PIPE)
          /\ UNCHANGED <<cmd, fdout>>
    /\ UNCHANGED <<call, penv, pcwd>>
    /\ UNCHANGED <<cmd0, need_in, need_err, fdin, fderr, fin, run, nwait, eintr>>
    /\ UNCHANGED childVars
    /\ UNCHANGED notLaunch

(* run-command.c:42-52 *)
StartNeedErr ==
    /\ ppc = "need_err"
    /\ need_err' = NeedErr(cmd)
    /\ \/ /\ ~NeedErr(cmd)
          /\ ppc' = "fork"
          /\ UNCHANGED <<cmd, pfd, fderr, code>>
       \/ /\ NeedErr(cmd)
          /\ pipe_possible(pfd)
          /\ fderr' = pipe_fds(pfd)
          /\ pfd' = pipe(pfd, "err")
          /\ cmd' = [cmd EXCEPT !.err = pipe_fds(pfd)[1]]
          /\ ppc' = "fork"
          /\ UNCHANGED code
       \/ /\ NeedErr(cmd)
          /\ pfd' = Rollback(pfd, need_in, need_out, FALSE)
          /\ StartReturns(-ERR_RUN_COMMAND_PIPE)
          /\ UNCHANGED <<cmd, fderr>>
    /\ UNCHANGED <<call, penv, pcwd>>
    /\ UNCHANGED <<cmd0, need_in, need_out, fdin, fdout, fin, run, nwait, eintr>>
    /\ UNCHANGED childVars
    /\ UNCHANGED notLaunch

(* run-command.c:54-63: fork; the child starts with copies of the parent's *)
(* memory and descriptors, and sees 0 in cmd->pid.                         *)
StartFork ==
    /\ ppc = "fork"
    /\ \/ /\ \E p \in ForkPids : cmd' = [cmd EXCEPT !.pid = p]
          /\ ppc' = "parent_close"
          /\ cpc' = "stdin"
          /\ ccmd' = [cmd EXCEPT !.pid = 0]
          /\ cfd' = pfd
          /\ ccwd' = pcwd
          /\ cenv' = penv
          /\ UNCHANGED <<pfd, code>>
       \/ /\ cmd' = [cmd EXCEPT !.pid = -1]
          /\ pfd' = Rollback(pfd, need_in, need_out, need_err)
          /\ StartReturns(-ERR_RUN_COMMAND_FORK)
          /\ UNCHANGED <<cpc, ccmd, cfd, ccwd, cenv>>
    /\ UNCHANGED <<call, penv, pcwd>>
    /\ UNCHANGED <<cmd0, need_in, need_out, need_err, fdin, fdout, fderr,
                   fin, run, nwait, eintr>>
    /\ UNCHANGED <<applied, tried, died, cstatus>>
    /\ UNCHANGED notLaunch

(* Faulty variant: the parent keeps the read end of the stdin pipe. *)
ParentClose_keepchildend(t, c) ==
    LET t1 == IF need_in THEN t
              ELSE IF c.in # 0 THEN close(t, c.in) ELSE t
        t2 == IF need_out THEN close(t1, fdout[2])
              ELSE IF c.out > 1 THEN close(t1, c.out) ELSE t1
    IN IF need_err THEN close(t2, fderr[2]) ELSE t2

(* run-command.c:114-127, the parent after fork *)
ParentClose(t, c) ==
    LET t1 == IF need_in THEN close(t, fdin[1])
              ELSE IF c.in # 0 THEN close(t, c.in) ELSE t
        t2 == IF need_out THEN close(t1, fdout[2])
              ELSE IF c.out > 1 THEN close(t1, c.out) ELSE t1
    IN IF need_err THEN close(t2, fderr[2]) ELSE t2

StartParentClose ==
    /\ ppc = "parent_close"
    /\ pfd' = ParentClose(pfd, cmd)
    /\ StartReturns(0)
    /\ UNCHANGED <<call, penv, pcwd>>
    /\ UNCHANGED <<cmd, cmd0, need_in, need_out, need_err, fdin, fdout, fderr,
                   fin, run, nwait, eintr>>
    /\ UNCHANGED childVars
    /\ UNCHANGED notLaunch

(***************************************************************************)
(* The child branch, run-command.c:65-112.  The child works on its own     *)
(* copies: ccmd, cfd.  need_* and fd* are read where fork copied them; the *)
(* parent does not write them after fork.                                  *)
(***************************************************************************)

(* run-command.c:66-74 *)
ChildWireStdin(t, c) ==
    IF c.no_stdin THEN dup_devnull(t, 0)
    ELSE IF need_in THEN close_pair(dup2(t, fdin[1], 0), fdin)
    ELSE IF c.in # 0 THEN close(dup2(t, c.in, 0), c.in)
    ELSE t

(* run-command.c:76-86 *)
ChildWireStdout(t, c) ==
    IF c.no_stdout THEN dup_devnull(t, 1)
    ELSE IF c.stdout_to_stderr THEN dup2(t, 2, 1)
    ELSE IF need_out THEN close_pair(dup2(t, fdout[2], 1), fdout)
    ELSE IF c.out > 1 THEN close(dup2(t, c.out, 1), c.out)
    ELSE t

(* run-command.c:88-93 *)
ChildWireStderr(t, c) ==
    IF c.no_stderr THEN dup_devnull(t, 2)
    ELSE IF need_err THEN close_pair(dup2(t, fderr[2], 2), fderr)
    ELSE t

ChildStdin ==
    /\ cpc = "stdin"
    /\ cfd' = ChildWireStdin(cfd, ccmd)
    /\ cpc' = "stdout"
    /\ UNCHANGED <<ccmd, ccwd, cenv, applied, tried, died, cstatus>>
    /\ UNCHANGED parentVars
    /\ UNCHANGED notLaunch

ChildStdout ==
    /\ cpc = "stdout"
    /\ cfd' = ChildWireStdout(cfd, ccmd)
    /\ cpc' = "stderr"
    /\ UNCHANGED <<ccmd, ccwd, cenv, applied, tried, died, cstatus>>
    /\ UNCHANGED parentVars
    /\ UNCHANGED notLaunch

ChildStderr ==
    /\ cpc = "stderr"
    /\ cfd' = ChildWireStderr(cfd, ccmd)
    /\ cpc' = "chdir"
    /\ UNCHANGED <<ccmd, ccwd, cenv, applied, tried, died, cstatus>>
    /\ UNCHANGED parentVars
    /\ UNCHANGED notLaunch

(* die(): the calling process ends; its descriptors close with it. *)
Die ==
    /\ died' = TRUE
    /\ cpc' = "zombie"
    /\ cstatus' = W_EXITCODE(DieStatus, 0)
    /\ cfd' = [fd \in Fds |-> Closed]

(* Faulty variant: a failed chdir is ignored. *)
ChdirDies_never(c) == FALSE

(* run-command.c:95-97 *)
ChdirDies(c) == c.dir # NullDir /\ chdir_fails(c.dir)

ChildChdir ==
    /\ cpc = "chdir"
    /\ \/ /\ ChdirDies(ccmd)
          /\ Die
          /\ UNCHANGED ccwd
       \/ /\ ~ChdirDies(ccmd)
          /\ ccwd' = IF ccmd.dir # NullDir /\ ~chdir_fails(ccmd.dir)
                     THEN ccmd.dir ELSE ccwd
          /\ cpc' = "env"
          /\ UNCHANGED <<cfd, died, cstatus>>
    /\ UNCHANGED <<ccmd, cenv, applied, tried>>
    /\ UNCHANGED parentVars
    /\ UNCHANGED notLaunch

(* *cmd->env is the array's terminating null *)
EnvAtEnd(c) == c.env.null \/ c.env.off >= Len(c.env.arr)

(* run-command.c:98-105: one pass of the loop, or leaving it *)
ChildEnv ==
    /\ cpc = "env"
    /\ \/ /\ EnvAtEnd(ccmd)
          /\ cpc' = "exec"
          /\ UNCHANGED <<ccmd, cenv, applied>>
       \/ /\ ~EnvAtEnd(ccmd)
          /\ cenv' = apply_env_entry(cenv, ccmd.env.arr[ccmd.env.off + 1])
          /\ applied' = Append(applied, ccmd.env.arr[ccmd.env.off + 1])
          /\ ccmd' = [ccmd EXCEPT !.env.off = @ + 1]
          /\ UNCHANGED cpc
    /\ UNCHANGED <<cfd, ccwd, tried, died, cstatus>>
    /\ UNCHANGED parentVars
    /\ UNCHANGED notLaunch

(* Faulty variant: git_cmd is not consulted. *)
ExecMechanism_execvp(c) == "execvp"

(* run-command.c:106-110: which exec the child calls *)
ExecMechanism(c) == IF c.git_cmd THEN "execv_git_cmd" ELSE "execvp"

(* run-command.c:106-111: exec replaces the process image, or returns and  *)
(* the child dies.                                                         *)
ChildExec ==
    /\ cpc = "exec"
    /\ tried' = tried \cup {ExecMechanism(ccmd)}
    /\ \/ /\ cpc' = "running"
          /\ UNCHANGED <<cfd, died, cstatus>>
       \/ Die
    /\ UNCHANGED <<ccmd, ccwd, cenv, applied>>
    /\ UNCHANGED parentVars
    /\ UNCHANGED notLaunch

(* The program that was exec'ed ends. *)
ProgramExit ==
    /\ cpc = "running"
    /\ \E st \in ProgramStatuses : cstatus' = st
    /\ cpc' = "zombie"
    /\ cfd' = [fd \in Fds |-> Closed]
    /\ UNCHANGED <<ccmd, ccwd, cenv, applied, tried, died>>
    /\ UNCHANGED parentVars
    /\ UNCHANGED notLaunch

(* Faulty variant: start_command's value is not tested. *)
StartFailed_never(c) == FALSE

(* run-command.c:164, if (code) *)
StartFailed(c) == c # Ret(0)

(* run-command.c:163-166 *)
RunCommandCheck ==
    /\ ppc = "run_check"
    /\ \/ /\ StartFailed(code)
          /\ run' = code
          /\ ppc' = "done"
       \/ /\ ~StartFailed(code)
          /\ ppc' = "waitpid"
          /\ UNCHANGED run
    /\ UNCHANGED <<call, penv, pcwd>>
    /\ UNCHANGED <<cmd, cmd0, pfd, need_in, need_out, need_err, fdin, fdout,
                   fderr, code, fin, nwait, eintr>>
    /\ UNCHANGED childVars
    /\ UNCHANGED notLaunch

(***************************************************************************)
(* finish_command(cmd) = wait_or_whine(cmd->pid), run-command.c:130-159.   *)
(* waitpid on the caller's child blocks until the child has ended; a       *)
(* signal to the caller while it blocks makes it return EINTR.             *)
(***************************************************************************)
FinishWaitpid ==
    /\ ppc = "waitpid"
    /\ nwait' = nwait + 1
    /\ \/ /\ cpc # "zombie"
          /\ eintr < MaxEintr
          /\ eintr' = eintr + 1
          /\ fin' = wait_or_whine(cmd.pid, -1, "EINTR", 0)
          /\ UNCHANGED <<ppc, run, cpc>>
       \/ /\ cpc = "zombie"
          /\ cpc' = "reaped"
          /\ fin' = wait_or_whine(cmd.pid, cmd.pid, "none", cstatus)
          /\ run' = wait_or_whine(cmd.pid, cmd.pid, "none", cstatus)
          /\ ppc' = "done"
          /\ UNCHANGED eintr
    /\ UNCHANGED <<call, penv, pcwd>>
    /\ UNCHANGED <<cmd, cmd0, pfd, need_in, need_out, need_err, fdin, fdout,
                   fderr, code>>
    /\ UNCHANGED <<ccmd, cfd, ccwd, cenv, applied, tried, died, cstatus>>
    /\ UNCHANGED notLaunch


(* ---- SpecWait: wait_or_whine(pid) against any sequence of outcomes ---- *)
WaitPids == {1, 2, 3}

WaitStatuses == {W_EXITCODE(0, 0), W_EXITCODE(1, 0), W_EXITCODE(42, 0),
                 W_EXITCODE(255, 0), W_EXITCODE(0, 9), W_EXITCODE(0, 15 + 128),
                 W_EXITCODE(19, 127)}

WaitErrnos == {"EINTR", "ECHILD", "EINVAL"}

NoOutcome == [waiting |-> 0, errno |-> "none", status |-> 0]

(* What one waitpid call can hand back: -1 with an errno, or a process id  *)
(* with a status.                                                          *)
WaitOutcomes ==
    [waiting : {-1}, errno : WaitErrnos, status : {0}]
    \cup [waiting : WaitPids, errno : {"none"}, status : WaitStatuses]

IsEintr(o) == o.waiting < 0 /\ o.errno = "EINTR"

WaitInit ==
    /\ wpid \in WaitPids
    /\ wpc = "waitpid"
    /\ wlast = NoOutcome
    /\ wret = NoRet
    /\ weintr = 0

WaitIdle ==
    /\ wpid = 0
    /\ wpc = "idle"
    /\ wlast = NoOutcome
    /\ wret = NoRet
    /\ weintr = 0

(* run-command.c:132-153, one pass of the for (;;) loop *)
WaitOrWhineIter ==
    /\ wpc = "waitpid"
    /\ \E o \in WaitOutcomes :
        /\ IsEintr(o) => weintr < MaxEintr
        /\ wlast' = o
        /\ wret' = wait_or_whine(wpid, o.waiting, o.errno, o.status)
        /\ weintr' = IF IsEintr(o) THEN weintr + 1 ELSE weintr
        /\ wpc' = IF wait_or_whine(wpid, o.waiting, o.errno, o.status) = NoRet
                  THEN "waitpid" ELSE "done"
    /\ UNCHANGED wpid
    /\ UNCHANGED notWait



(***************************************************************************)
(* The async worker pipeline, run-command.c:204-233.                       *)
(***************************************************************************)
MaxBytes == 3

PipeCap == 2

Bytes == {"h", "i"}

(* Values the producer async->proc may return. *)
ProcReturns == {0, 1, -1, 256}

(* error(...) reports and returns this value. *)
error == -1

Seqs(S, n) == UNION {[1..m -> S] : m \in 0..n}

AsyncInit ==
    /\ async = [out |-> 0, pid |-> 0]
    /\ apc = "pipe"
    /\ aret = NoRet
    /\ afin = NoRet
    /\ aeintr = 0
    /\ pipe_out = NoPipe
    /\ afd = StdFds
    /\ kfd = [fd \in Fds |-> Closed]
    /\ buf = <<>>
    /\ cap \in 1..PipeCap
    /\ kpc = "none"
    /\ kstatus = 0
    /\ data \in Seqs(Bytes, MaxBytes)
    /\ towrite = data
    /\ pclose \in BOOLEAN
    /\ prc \in ProcReturns
    /\ got = <<>>
    /\ eof = FALSE

AsyncIdle ==
    /\ async = [out |-> 0, pid |-> 0]
    /\ apc = "idle"
    /\ aret = NoRet
    /\ afin = NoRet
    /\ aeintr = 0
    /\ pipe_out = NoPipe
    /\ afd = StdFds
    /\ kfd = [fd \in Fds |-> Closed]
    /\ buf = <<>>
    /\ cap = 1
    /\ kpc = "none"
    /\ kstatus = 0
    /\ data = <<>>
    /\ towrite = <<>>
    /\ pclose = FALSE
    /\ prc = 0
    /\ got = <<>>
    /\ eof = FALSE

(* Some process still holds the pipe's write end. *)
WriteEndOpen == \E fd \in Fds : afd[fd] = "async.w" \/ kfd[fd] = "async.w"

(* run-command.c:208-209 *)
AsyncPipe ==
    /\ apc = "pipe"
    /\ \/ /\ pipe_possible(afd)
          /\ pipe_out' = pipe_fds(afd)
          /\ afd' = pipe(afd, "async")
          /\ apc' = "fork"
          /\ UNCHANGED aret
       \/ /\ aret' = Ret(error)
          /\ apc' = "failed"
          /\ UNCHANGED <<pipe_out, afd>>
    /\ UNCHANGED <<async, afin, aeintr, kfd, buf, kpc, kstatus, cap, data, towrite,
                   pclose, prc, got, eof>>
    /\ UNCHANGED notAsync

(* Faulty variant: only pipe_out[0] is closed when fork fails. *)
AsyncForkFailFds_leak(t) == close(t, pipe_out[1])

(* run-command.c:214, close_pair(pipe_out) after a failed fork *)
AsyncForkFailFds(t) == close_pair(t, pipe_out)

(* run-command.c:211-216 *)
AsyncFork ==
    /\ apc = "fork"
    /\ \/ /\ \E p \in ForkPids : async' = [async EXCEPT !.pid = p]
          /\ kfd' = afd
          /\ kpc' = "close_read"
          /\ apc' = "parent"
          /\ UNCHANGED <<afd, aret>>
       \/ /\ async' = [async EXCEPT !.pid = -1]
          /\ afd' = AsyncForkFailFds(afd)
          /\ aret' = Ret(-1)
          /\ apc' = "failed"
          /\ UNCHANGED <<kfd, kpc>>
    /\ UNCHANGED <<afin, aeintr, pipe_out, buf, kstatus, cap, data, towrite, pclose,
                   prc, got, eof>>
    /\ UNCHANGED notAsync

(* Faulty variant: the parent keeps the write end open. *)
AsyncParentFds_keepwrite(t) == t

(* run-command.c:221-223, the parent after fork *)
AsyncParentFds(t) == close(t, pipe_out[2])

AsyncParent ==
    /\ apc = "parent"
    /\ async' = [async EXCEPT !.out = pipe_out[1]]
    /\ afd' = AsyncParentFds(afd)
    /\ aret' = Ret(0)
    /\ apc' = "read"
    /\ UNCHANGED <<afin, aeintr, pipe_out, kfd, buf, kpc, kstatus, cap, data,
                   towrite, pclose, prc, got, eof>>
    /\ UNCHANGED notAsync

(* run-command.c:218, the worker closes the read end *)
WorkerCloseRead ==
    /\ kpc = "close_read"
    /\ kfd' = close(kfd, pipe_out[1])
    /\ kpc' = "proc"
    /\ UNCHANGED <<async, apc, aret, afin, aeintr, pipe_out, afd, buf, kstatus,
                   cap, data, towrite, pclose, prc, got, eof>>
    /\ UNCHANGED notAsync

(* async->proc(pipe_out[1], data) writes its next byte; write blocks while *)
(* the pipe is full.                                                       *)
ProcWrite ==
    /\ kpc = "proc"
    /\ towrite # <<>>
    /\ IsOpen(kfd, pipe_out[2])
    /\ Len(buf) < cap
    /\ buf' = Append(buf, Head(towrite))
    /\ towrite' = Tail(towrite)
    /\ UNCHANGED <<async, apc, aret, afin, aeintr, pipe_out, afd, kfd, kpc,
                   kstatus, cap, data, pclose, prc, got, eof>>
    /\ UNCHANGED notAsync

(* async->proc closes its descriptor (run-command.h:55) *)
ProcClose ==
    /\ kpc = "proc"
    /\ towrite = <<>>
    /\ pclose
    /\ IsOpen(kfd, pipe_out[2])
    /\ kfd' = close(kfd, pipe_out[2])
    /\ UNCHANGED <<async, apc, aret, afin, aeintr, pipe_out, afd, buf, kpc,
                   kstatus, cap, data, towrite, pclose, prc, got, eof>>
    /\ UNCHANGED notAsync

(* Faulty variant: exit(proc(...)) without the !!. *)
WorkerExitCode_raw(r) == r

(* run-command.c:219, exit(!!async->proc(...)) *)
WorkerExitCode(r) == IF r # 0 THEN 1 ELSE 0

(* async->proc returns and the worker exits; its descriptors close. *)
ProcReturn ==
    /\ kpc = "proc"
    /\ towrite = <<>>
    /\ pclose => ~IsOpen(kfd, pipe_out[2])
    /\ kstatus' = W_EXITCODE(WorkerExitCode(prc), 0)
    /\ kfd' = [fd \in Fds |-> Closed]
    /\ kpc' = "zombie"
    /\ UNCHANGED <<async, apc, aret, afin, aeintr, pipe_out, afd, buf, cap, data,
                   towrite, pclose, prc, got, eof>>
    /\ UNCHANGED notAsync

(* The caller reads async->out: a byte if the pipe holds one; end-of-stream *)
(* if it is empty and no process holds the write end; else read blocks.     *)
(* At end-of-stream the caller closes async->out (run-command.h:60).        *)
CallerRead ==
    /\ apc = "read"
    /\ \/ /\ buf # <<>>
          /\ got' = Append(got, Head(buf))
          /\ buf' = Tail(buf)
          /\ UNCHANGED <<apc, afd, eof>>
       \/ /\ buf = <<>>
          /\ ~WriteEndOpen
          /\ eof' = TRUE
          /\ afd' = close(afd, async.out)
          /\ apc' = "finish"
          /\ UNCHANGED <<got, buf>>
    /\ UNCHANGED <<async, aret, afin, aeintr, pipe_out, kfd, kpc, kstatus,
                   cap, data, towrite, pclose, prc>>
    /\ UNCHANGED notAsync

(* run-command.c:228-232 *)
finish_async(w) == IF w # Ret(0) THEN Ret(error) ELSE Ret(0)

(* run-command.c:226-233 with wait_or_whine's loop, one waitpid per step *)
FinishAsync ==
    /\ apc = "finish"
    /\ \/ /\ kpc # "zombie"
          /\ aeintr < MaxEintr
          /\ aeintr' = aeintr + 1
          /\ wait_or_whine(async.pid, -1, "EINTR", 0) = NoRet
          /\ UNCHANGED <<apc, afin, kpc>>
       \/ /\ kpc = "zombie"
          /\ kpc' = "reaped"
          /\ afin' = finish_async(wait_or_whine(async.pid, async.pid, "none", kstatus))
          /\ apc' = "done"
          /\ UNCHANGED aeintr
    /\ UNCHANGED <<async, aret, pipe_out, afd, kfd, buf, kstatus, cap, data,
                   towrite, pclose, prc, got, eof>>
    /\ UNCHANGED notAsync

(***************************************************************************)
(* Several launches and reaps.  fork hands out any process id that is      *)
(* free; once a child has been reaped its id is free again.                *)
(***************************************************************************)
MaxPid == 2

MaxHandles == 2

Pids == 1..MaxPid

Handles == 1..MaxHandles

ExitStatuses == {W_EXITCODE(0, 0), W_EXITCODE(1, 0), W_EXITCODE(0, 9)}

FreeProc == [st |-> "free", status |-> 0, launch |-> 0]

NoFinish == [h |-> 0, ok |-> FALSE, again |-> FALSE, clean |-> TRUE,
             ret |-> NoRet, reaped |-> 0]

ReapInit ==
    /\ ptab = [p \in Pids |-> FreeProc]
    /\ handles = [i \in Handles |-> [pid |-> 0, started |-> FALSE, reaps |-> 0]]
    /\ last = NoFinish

ReapIdle ==
    /\ ptab = [p \in {} |-> FreeProc]
    /\ handles = [i \in {} |-> 0]
    /\ last = NoFinish

(* start_command's fork succeeds, run-command.c:54: cmd->pid = fork() *)
ReapStart ==
    /\ \E i \in Handles, p \in Pids :
        /\ ~handles[i].started
        /\ ptab[p].st = "free"
        /\ ptab' = [ptab EXCEPT ![p] = [st |-> "running", status |-> 0, launch |-> i]]
        /\ handles' = [handles EXCEPT ![i].pid = p, ![i].started = TRUE]
    /\ UNCHANGED last
    /\ UNCHANGED notReap

(* A child ends. *)
ReapExit ==
    /\ \E p \in Pids, st \in ExitStatuses :
        /\ ptab[p].st = "running"
        /\ ptab' = [ptab EXCEPT ![p].st = "zombie", ![p].status = st]
    /\ UNCHANGED <<handles, last>>
    /\ UNCHANGED notReap

(* start_command's fork fails, run-command.c:54-55: cmd->pid = -1 *)
ReapStartFails ==
    /\ \E i \in Handles :
        /\ ~handles[i].started
        /\ handles[i].pid = 0
        /\ handles' = [handles EXCEPT ![i].pid = -1]
    /\ UNCHANGED <<ptab, last>>
    /\ UNCHANGED notReap

(* Faulty variant: the call waits for any child, as waitpid(-1, ...) does. *)
waitpid_children_any(t, pid) == {q \in Pids : t[q].st # "free"}

(* The children of the caller that waitpid(pid, &status, 0) waits for      *)
(* (run-command.c:134): the one with that id when pid is positive, every   *)
(* child when it is -1.                                                    *)
waitpid_children(t, pid) ==
    {q \in Pids : t[q].st # "free" /\ (pid > 0 => q = pid)}

(* finish_command(cmd), run-command.c:156-159, on a struct that            *)
(* start_command has been called on: waitpid fails with ECHILD when the    *)
(* caller has no child to wait for, and else returns once one of the       *)
(* children it waits for has ended.                                        *)
ReapFinish ==
    /\ \E i \in Handles :
        /\ handles[i].started \/ handles[i].pid = -1
        /\ LET p == handles[i].pid IN
           \/ /\ waitpid_children(ptab, p) = {}
              /\ last' = [h |-> i, ok |-> handles[i].started,
                          again |-> handles[i].reaps > 0,
                          clean |-> /\ last.clean
                                    /\ handles[i].started
                                    /\ handles[i].reaps = 0,
                          ret |-> wait_or_whine(p, -1, "ECHILD", 0),
                          reaped |-> 0]
              /\ UNCHANGED <<ptab, handles>>
           \/ \E q \in waitpid_children(ptab, p) :
              /\ ptab[q].st = "zombie"
              /\ last' = [h |-> i, ok |-> handles[i].started,
                          again |-> handles[i].reaps > 0,
                          clean |-> /\ last.clean
                                    /\ handles[i].started
                                    /\ handles[i].reaps = 0,
                          ret |-> wait_or_whine(p, q, "none", ptab[q].status),
                          reaped |-> ptab[q].launch]
              /\ ptab' = [ptab EXCEPT ![q] = FreeProc]
              /\ handles' = [handles EXCEPT ![i].reaps = @ + 1]
    /\ UNCHANGED notReap

(***************************************************************************)
(* The specifications.                                                     *)
(***************************************************************************)
LaunchIdle ==
    /\ cmd = [argv |-> <<"prog">>, pid |-> 0, in |-> 0, out |-> 0, err |-> 0,
              dir |-> NullDir, env |-> NullEnv, no_stdin |-> FALSE,
              no_stdout |-> FALSE, no_stderr |-> FALSE, git_cmd |-> FALSE,
              stdout_to_stderr |-> FALSE]
    /\ cmd0 = cmd
    /\ pfd = StdFds
    /\ ppc = "idle"
    /\ need_in = FALSE
    /\ need_out = FALSE
    /\ need_err = FALSE
    /\ fdin = NoPipe
    /\ fdout = NoPipe
    /\ fderr = NoPipe
    /\ code = NoRet
    /\ fin = NoRet
    /\ run = NoRet
    /\ nwait = 0
    /\ eintr = 0
    /\ call = NoCall
    /\ penv = InheritedEnv
    /\ pcwd = InheritedCwd
    /\ ChildInit

Init == LaunchInit /\ WaitIdle /\ AsyncIdle /\ ReapIdle

Next ==
    \/ StartNeedIn
    \/ StartNeedOut
    \/ StartNeedErr
    \/ StartFork
    \/ StartParentClose
    \/ ChildStdin
    \/ ChildStdout
    \/ ChildStderr
    \/ ChildChdir
    \/ ChildEnv
    \/ ChildExec
    \/ ProgramExit
    \/ RunCommandCheck
    \/ FinishWaitpid

Spec == Init /\ [][Next]_vars

InitWait == WaitInit /\ LaunchIdle /\ AsyncIdle /\ ReapIdle

NextWait == WaitOrWhineIter

SpecWait == InitWait /\ [][NextWait]_vars

InitAsync == AsyncInit /\ LaunchIdle /\ WaitIdle /\ ReapIdle

NextAsync ==
    \/ AsyncPipe
    \/ AsyncFork
    \/ AsyncParent
    \/ WorkerCloseRead
    \/ ProcWrite
    \/ ProcClose
    \/ ProcReturn
    \/ CallerRead
    \/ FinishAsync

SpecAsync == InitAsync /\ [][NextAsync]_vars

(* The caller and the worker are two processes, each of which runs when    *)
(* it can: the caller is in start_async, in a read of async->out or in     *)
(* finish_async's waitpid; the worker is in the producer or exiting.       *)
AsyncCaller == AsyncPipe \/ AsyncFork \/ AsyncParent \/ CallerRead \/ FinishAsync

AsyncWorker == WorkerCloseRead \/ ProcWrite \/ ProcClose \/ ProcReturn

SpecAsyncFair ==
    /\ InitAsync
    /\ [][NextAsync]_vars
    /\ WF_vars(AsyncCaller)
    /\ WF_vars(AsyncWorker)

InitReap == ReapInit /\ LaunchIdle /\ WaitIdle /\ AsyncIdle

NextReap ==
    \/ ReapStart
    \/ ReapStartFails
    \/ ReapExit
    \/ ReapFinish

SpecReap == InitReap /\ [][NextReap]_vars

(***************************************************************************)
(* SpecEnv: run_command on a struct with in = out = err = 0 and no flag    *)
(* set, whose env array holds up to MaxEnvLen entries: bindings of two     *)
(* names, the bare names, an empty value, a value holding '='.             *)
(***************************************************************************)
MaxEnvLen == 3

OrderEntries == {<<"F", "=", "b">>, <<"F">>, <<"G", "=", "c">>, <<"G">>,
                 <<"F", "=">>, <<"G", "=", "=">>}

OrderEnvValues ==
    {[null |-> FALSE, arr |-> a, off |-> 0] :
        a \in UNION {[1..n -> OrderEntries] : n \in 0..MaxEnvLen}}

InitEnv ==
    /\ cmd \in [argv : {<<"prog">>}, pid : {0}, in : {0}, out : {0},
                err : {0}, dir : {NullDir, "/work"}, env : OrderEnvValues,
                no_stdin : {FALSE}, no_stdout : {FALSE}, no_stderr : {FALSE},
                git_cmd : {FALSE}, stdout_to_stderr : {FALSE}]
    /\ cmd0 = cmd
    /\ pfd = EntryFds(cmd)
    /\ ppc = "need_in"
    /\ need_in = FALSE
    /\ need_out = FALSE
    /\ need_err = FALSE
    /\ fdin = NoPipe
    /\ fdout = NoPipe
    /\ fderr = NoPipe
    /\ code = NoRet
    /\ fin = NoRet
    /\ run = NoRet
    /\ nwait = 0
    /\ eintr = 0
    /\ call = NoCall
    /\ penv = InheritedEnv
    /\ pcwd = InheritedCwd
    /\ ChildInit
    /\ WaitIdle
    /\ AsyncIdle
    /\ ReapIdle

SpecEnv == InitEnv /\ [][Next]_vars

(***************************************************************************)
(* SpecOpt: the convenience entry points run_command_v_opt,                *)
(* run_command_v_opt_cd and run_command_v_opt_cd_env, run-command.c:169-202 *)
(***************************************************************************)
RUN_COMMAND_NO_STDIN == 1

RUN_GIT_CMD == 2

RUN_COMMAND_STDOUT_TO_STDERR == 4

MaxOpt == 8

(* opt is an int: -1 has every bit set *)
OptValues == -1..MaxOpt

(* opt & flag ? 1 : 0, for a flag that is a single bit *)
opt_has(opt, flag) == (opt \div flag) % 2 = 1

(* what the memset of the struct to 0 leaves, run-command.c:173 *)
ZeroCmd ==
    [argv |-> <<>>, pid |-> 0, in |-> 0, out |-> 0, err |-> 0,
     dir |-> NullDir, env |-> NullEnv, no_stdin |-> FALSE,
     no_stdout |-> FALSE, no_stderr |-> FALSE, git_cmd |-> FALSE,
     stdout_to_stderr |-> FALSE]

(* Faulty variant: without the memset. *)
prepare_run_command_v_opt_nomemset(c, argv, opt) ==
    [c EXCEPT !.argv = argv,
              !.no_stdin = opt_has(opt, RUN_COMMAND_NO_STDIN),
              !.git_cmd = opt_has(opt, RUN_GIT_CMD),
              !.stdout_to_stderr = opt_has(opt, RUN_COMMAND_STDOUT_TO_STDERR)]

(* run-command.c:169-178; c is the struct's content before the call *)
prepare_run_command_v_opt(c, argv, opt) ==
    [ZeroCmd EXCEPT !.argv = argv,
                    !.no_stdin = opt_has(opt, RUN_COMMAND_NO_STDIN),
                    !.git_cmd = opt_has(opt, RUN_GIT_CMD),
                    !.stdout_to_stderr = opt_has(opt, RUN_COMMAND_STDOUT_TO_STDERR)]

(* run-command.c:182-183, 189-191, 197-200: the struct handed to           *)
(* run_command by the entry point k.fn                                     *)
run_command_v_opt(k, c) ==
    LET p == prepare_run_command_v_opt(c, <<"prog">>, k.opt) IN
    IF k.fn = "run_command_v_opt" THEN p
    ELSE IF k.fn = "run_command_v_opt_cd" THEN [p EXCEPT !.dir = k.dir]
    ELSE [p EXCEPT !.dir = k.dir, !.env = k.env]

(* The calls tried: each entry point with the arguments it has. *)
OptCalls ==
    [fn : {"run_command_v_opt"}, opt : OptValues, dir : {NullDir},
     env : {NullEnv}]
    \cup [fn : {"run_command_v_opt_cd"}, opt : OptValues, dir : DirValues,
          env : {NullEnv}]
    \cup [fn : {"run_command_v_opt_cd_env"}, opt : OptValues, dir : DirValues,
          env : EnvValues]

(* struct child_process cmd is a local that is not initialized             *)
(* (run-command.c:182): it holds zeros, or what the stack held.            *)
StackCmds ==
    {ZeroCmd,
     [argv |-> <<"junk">>, pid |-> 7, in |-> -1, out |-> -1, err |-> -1,
      dir |-> "/nonexistent", env |-> NullEnv, no_stdin |-> TRUE,
      no_stdout |-> TRUE, no_stderr |-> TRUE, git_cmd |-> TRUE,
      stdout_to_stderr |-> TRUE]}

InitOpt ==
    /\ call \in OptCalls
    /\ cmd \in StackCmds
    /\ cmd0 = cmd
    /\ pfd = StdFds
    /\ ppc = "prepare"
    /\ need_in = FALSE
    /\ need_out = FALSE
    /\ need_err = FALSE
    /\ fdin = NoPipe
    /\ fdout = NoPipe
    /\ fderr = NoPipe
    /\ code = NoRet
    /\ fin = NoRet
    /\ run = NoRet
    /\ nwait = 0
    /\ eintr = 0
    /\ penv = InheritedEnv
    /\ pcwd = InheritedCwd
    /\ ChildInit
    /\ WaitIdle
    /\ AsyncIdle
    /\ ReapIdle

(* The entry point fills the struct and calls run_command on it; cmd0 is   *)
(* the struct as start_command finds it.                                   *)
RunCommandVOpt ==
    /\ ppc = "prepare"
    /\ cmd' = run_command_v_opt(call, cmd)
    /\ cmd0' = run_command_v_opt(call, cmd)
    /\ ppc' = "need_in"
    /\ UNCHANGED <<call, penv, pcwd>>
    /\ UNCHANGED <<pfd, need_in, need_out, need_err, fdin, fdout, fderr, code,
                   fin, run, nwait, eintr>>
    /\ UNCHANGED childVars
    /\ UNCHANGED notLaunch

NextOpt ==
    \/ RunCommandVOpt
    \/ StartNeedIn
    \/ StartNeedOut
    \/ StartNeedErr
    \/ StartFork
    \/ StartParentClose
    \/ ChildStdin
    \/ ChildStdout
    \/ ChildStderr
    \/ ChildChdir
    \/ ChildEnv
    \/ ChildExec
    \/ ProgramExit
    \/ RunCommandCheck
    \/ FinishWaitpid

SpecOpt == InitOpt /\ [][NextOpt]_vars

(***************************************************************************)
(* C1: finish_command(pid) returns only on a waitpid outcome that is not   *)
(* EINTR, and its value is that outcome's class, in this priority order:   *)
(* error -> -WAITPID, other id -> -WAITPID_WRONG_PID, killed by a signal   *)
(* -> -WAITPID_SIGNAL, no normal exit -> -WAITPID_NOEXIT, exit code 0 ->   *)
(* 0, exit code N -> -N; the EINTR results retried before it (weintr of    *)
(* them) do not change the value, and while the last result is EINTR the   *)
(* function has not returned.                                              *)
(***************************************************************************)
C1_Class(pid, o) ==
    CASE o.waiting < 0 -> -ERR_RUN_COMMAND_WAITPID
      [] o.waiting >= 0 /\ o.waiting # pid -> -ERR_RUN_COMMAND_WAITPID_WRONG_PID
      [] o.waiting = pid /\ o.status % 128 \in 1..126 -> -ERR_RUN_COMMAND_WAITPID_SIGNAL
      [] o.waiting = pid /\ o.status % 128 = 127 -> -ERR_RUN_COMMAND_WAITPID_NOEXIT
      [] o.waiting = pid /\ o.status % 128 = 0 -> -((o.status \div 256) % 256)

C1_WaitClassification ==
    /\ wpc = "done" =>
        /\ ~IsEintr(wlast)
        /\ wret = Ret(C1_Class(wpid, wlast))
    /\ (wpc = "waitpid" /\ wlast # NoOutcome) => (IsEintr(wlast) /\ wret = NoRet)

C1_Witness ==
    /\ wpc = "done"
    /\ weintr = MaxEintr
    /\ wlast.waiting = wpid
    /\ wret = Ret(-42)


(* Descriptors of table t that refer to file f. *)
FdsOf(t, f) == {fd \in Fds : t[fd] = f}

(* The child is about to call exec: wiring, chdir and environment done. *)
AtExec == cpc = "exec"

(***************************************************************************)
(* C2: run_command is launch followed by reap.  If start_command returns   *)
(* nonzero, run_command returns that value and waitpid is never called;    *)
(* otherwise it returns finish_command's result for the launched child,    *)
(* so a child that exits with code 0 gives 0 and one that exits with code  *)
(* N in 1..255 gives -N.                                                   *)
(***************************************************************************)
C2_RunCommand ==
    /\ (code # NoRet /\ code # Ret(0)) =>
        /\ nwait = 0
        /\ fin = NoRet
        /\ ppc = "done" => run = code
    /\ (ppc = "done" /\ code = Ret(0)) =>
        /\ nwait > 0
        /\ cpc = "reaped"
        /\ fin # NoRet
        /\ run = fin
        /\ \A n \in 0..255 : cstatus = n * 256 => run = Ret(-n)
    /\ ppc # "done" => run = NoRet

C2_Witness ==
    /\ ppc = "done"
    /\ code = Ret(0)
    /\ ~died
    /\ cstatus = 42 * 256
    /\ run = Ret(-42)

(***************************************************************************)
(* C3: stream resolution is suppressed > explicit > auto-pipe.  A pipe is  *)
(* allocated for a stream only when the stream is not suppressed, (for     *)
(* stdout) not redirected to stderr, and its field is negative on entry,   *)
(* and whenever start_command gets past that stream's allocation such a    *)
(* stream has its pipe.  At exec a suppressed stream's descriptor in the   *)
(* child is the null device whatever the fields and other flags are, and a *)
(* stream that is not suppressed (nor, for stdout, redirected) and has a   *)
(* descriptor of the caller's is that descriptor.                          *)
(***************************************************************************)
C3_AutoIn == ~cmd0.no_stdin /\ cmd0.in < 0

C3_AutoOut == ~cmd0.no_stdout /\ ~cmd0.stdout_to_stderr /\ cmd0.out < 0

C3_AutoErr == ~cmd0.no_stderr /\ cmd0.err < 0

C3_PastIn == ppc \in {"need_out", "need_err", "fork", "parent_close"} \/ cpc # "none"

C3_PastOut == ppc \in {"need_err", "fork", "parent_close"} \/ cpc # "none"

C3_PastErr == ppc \in {"fork", "parent_close"} \/ cpc # "none"

C3_StreamResolution ==
    /\ fdin # NoPipe => C3_AutoIn
    /\ fdout # NoPipe => C3_AutoOut
    /\ fderr # NoPipe => C3_AutoErr
    /\ C3_PastIn => (fdin # NoPipe <=> C3_AutoIn)
    /\ C3_PastOut => (fdout # NoPipe <=> C3_AutoOut)
    /\ C3_PastErr => (fderr # NoPipe <=> C3_AutoErr)
    /\ ppc = "fork" =>
        /\ C3_AutoIn <=> (FdsOf(pfd, "in.r") # {} /\ FdsOf(pfd, "in.w") # {})
        /\ C3_AutoOut <=> (FdsOf(pfd, "out.r") # {} /\ FdsOf(pfd, "out.w") # {})
        /\ C3_AutoErr <=> (FdsOf(pfd, "err.r") # {} /\ FdsOf(pfd, "err.w") # {})
    /\ AtExec =>
        /\ cmd0.no_stdin => cfd[0] = "devnull"
        /\ cmd0.no_stdout => cfd[1] = "devnull"
        /\ cmd0.no_stderr => cfd[2] = "devnull"
        /\ (~cmd0.no_stdin /\ cmd0.in > 2) => cfd[0] = "xin"
        /\ (~cmd0.no_stdout /\ ~cmd0.stdout_to_stderr /\ cmd0.out > 2)
               => cfd[1] = "xout"

C3_Witness ==
    /\ AtExec
    /\ cmd0.no_stdout
    /\ cmd0.stdout_to_stderr
    /\ cmd0.out > 2
    /\ cmd0.no_stdin
    /\ cmd0.in < 0
    /\ fderr # NoPipe
    /\ cfd[0] = "devnull"
    /\ cfd[1] = "devnull"

(***************************************************************************)
(* C4: when start_command fails, the parent's descriptor table is what it  *)
(* was on entry (every pipe end made by the call is closed again), no      *)
(* child exists, and the value is -ERR_RUN_COMMAND_FORK when fork failed   *)
(* and -ERR_RUN_COMMAND_PIPE when a pipe call failed.                      *)
(***************************************************************************)
C4_FailureRollsBack ==
    (code # NoRet /\ code # Ret(0)) =>
        /\ pfd = EntryFds(cmd0)
        /\ cpc = "none"
        /\ code \in {Ret(-ERR_RUN_COMMAND_PIPE), Ret(-ERR_RUN_COMMAND_FORK)}
        /\ code = Ret(-ERR_RUN_COMMAND_FORK) <=> cmd.pid = -1
        /\ code = Ret(-ERR_RUN_COMMAND_PIPE) <=> cmd.pid = cmd0.pid

C4_Witness ==
    /\ code = Ret(-ERR_RUN_COMMAND_FORK)
    /\ fdin # NoPipe
    /\ fdout # NoPipe
    /\ fderr # NoPipe
    /\ cmd0.in < 0
    /\ pfd = EntryFds(cmd0)

(***************************************************************************)
(* C5: after start_command has returned 0, cmd->pid is positive and for    *)
(* every auto-piped stream the parent holds only the end opposite to the   *)
(* child's, at the number stored in cmd->in / cmd->out / cmd->err; at exec *)
(* the child holds only its own end, and only as descriptor 0, 1 or 2.     *)
(***************************************************************************)
C5_PipeOwnership ==
    /\ code = Ret(0) =>
        /\ cmd.pid > 0
        /\ C3_AutoIn =>
            /\ FdsOf(pfd, "in.r") = {}
            /\ FdsOf(pfd, "in.w") = {cmd.in}
        /\ C3_AutoOut =>
            /\ FdsOf(pfd, "out.w") = {}
            /\ FdsOf(pfd, "out.r") = {cmd.out}
        /\ C3_AutoErr =>
            /\ FdsOf(pfd, "err.w") = {}
            /\ FdsOf(pfd, "err.r") = {cmd.err}
    /\ AtExec =>
        /\ C3_AutoIn =>
            /\ FdsOf(cfd, "in.r") = {0}
            /\ FdsOf(cfd, "in.w") = {}
        /\ C3_AutoOut =>
            /\ FdsOf(cfd, "out.w") = {1}
            /\ FdsOf(cfd, "out.r") = {}
        /\ C3_AutoErr =>
            /\ FdsOf(cfd, "err.w") = {2}
            /\ FdsOf(cfd, "err.r") = {}

C5_Witness ==
    /\ code = Ret(0)
    /\ AtExec
    /\ C3_AutoIn
    /\ C3_AutoOut
    /\ C3_AutoErr
    /\ cmd.in # cmd0.in

(***************************************************************************)
(* C6: at exec the child has closed every descriptor the launch made or    *)
(* was handed that is not in use as descriptor 0, 1 or 2: both ends of     *)
(* every pipe and the caller's descriptors in cmd->in, cmd->out, cmd->err. *)
(***************************************************************************)
C6_ChildClosesUnused ==
    AtExec => \A fd \in Fds : fd > 2 => cfd[fd] = Closed

(***************************************************************************)
(* C7: with stdout_to_stderr set and no_stdout clear, descriptors 1 and 2  *)
(* of the child refer to the same open file at exec, whether stderr is     *)
(* inherited, suppressed or auto-piped.                                    *)
(***************************************************************************)
C7_StdoutIsStderr ==
    (AtExec /\ cmd0.stdout_to_stderr /\ ~cmd0.no_stdout) => cfd[1] = cfd[2]

(***************************************************************************)
(* C8: the caller of start_async that reads async->out to end-of-stream    *)
(* reads exactly the bytes the producer wrote, in order; finish_async      *)
(* returns 0 exactly when the worker exited normally with the producer     *)
(* having returned 0, and -1 when the producer returned nonzero, even      *)
(* though every byte was read; the worker's exit code is 0 or 1.           *)
(***************************************************************************)
C8_AsyncPipeline ==
    /\ Len(got) <= Len(data)
    /\ got = SubSeq(data, 1, Len(got))
    /\ eof => got = data
    /\ kpc \in {"zombie", "reaped"} =>
        /\ kstatus \in {0, 256}
        /\ kstatus = 0 <=> prc = 0
    /\ apc = "done" =>
        /\ eof
        /\ kpc = "reaped"
        /\ afin = Ret(0) <=> prc = 0
        /\ prc # 0 => afin = Ret(-1)

C8_Witness ==
    /\ apc = "done"
    /\ Len(data) = MaxBytes
    /\ got = data
    /\ prc = 256
    /\ afin = Ret(-1)

(***************************************************************************)
(* C9: a finish_command on a child_process that finish_command has already *)
(* reaped returns a nonzero error and reaps no process, whatever launches  *)
(* and exits happened in between.                                          *)
(***************************************************************************)
C9_SecondReapRejected ==
    last.again => (last.ret # NoRet /\ last.ret # Ret(0) /\ last.reaped = 0)

(***************************************************************************)
(* C10: when cmd->dir names a directory the child cannot change into, the  *)
(* child ends at once through die(): it applies no environment entry and   *)
(* attempts no exec; start_command still returns 0 in the parent; reaping  *)
(* the child gives the child-exit outcome for die()'s exit code, which is  *)
(* not success.                                                            *)
(***************************************************************************)
C10_BadDir == cmd0.dir # NullDir /\ chdir_fails(cmd0.dir)

C10_ChildStopsAtChdir ==
    /\ applied = <<>>
    /\ cenv = InheritedEnv
    /\ ccwd = InheritedCwd
    /\ tried = {}
    /\ cpc \in {"none", "stdin", "stdout", "stderr", "chdir", "zombie", "reaped"}
    /\ cpc \in {"zombie", "reaped"} => died
    /\ (cpc # "none" /\ code # NoRet) => code = Ret(0)

C11_Key(e) == IF strchr(e, "=") # 0 THEN SubSeq(e, 1, strchr(e, "=") - 1) ELSE e

C11_Last(arr, k) ==
    IF \E i \in 1..Len(arr) : C11_Key(arr[i]) = k
    THEN CHOOSE i \in 1..Len(arr) :
            /\ C11_Key(arr[i]) = k
            /\ \A j \in (i + 1)..Len(arr) : C11_Key(arr[j]) # k
    ELSE 0

C11_Expected(inherited, arr) ==
    {b \in inherited : C11_Last(arr, b.key) = 0}
    \cup {[key |-> C11_Key(arr[i]),
           val |-> SubSeq(arr[i], strchr(arr[i], "=") + 1, Len(arr[i]))] :
            i \in {j \in 1..Len(arr) :
                     /\ C11_Last(arr, C11_Key(arr[j])) = j
                     /\ strchr(arr[j], "=") # 0}}

C11_EnvInOrder ==
    cpc \in {"exec", "running"} =>
        /\ applied = cmd0.env.arr
        /\ cenv = C11_Expected(InheritedEnv, cmd0.env.arr)
        /\ (Len(applied) = 2 /\ applied[1] = <<"F", "=", "b">>
                /\ applied[2] = <<"F">>) =>
            ~\E b \in cenv : b.key = <<"F">>
        /\ (Len(applied) = 2 /\ applied[1] = <<"F">>
                /\ applied[2] = <<"F", "=", "b">>) =>
            [key |-> <<"F">>, val |-> <<"b">>] \in cenv

C11_Witness ==
    /\ cpc = "exec"
    /\ Len(cmd0.env.arr) = 3
    /\ cmd0.env.arr[1] = <<"G", "=", "c">>
    /\ cmd0.env.arr[2] = <<"F", "=", "b">>
    /\ cmd0.env.arr[3] = <<"F">>
    /\ cenv = {[key |-> <<"G">>, val |-> <<"c">>]}

(***************************************************************************)
(* C12: in the parent, from entry to start_command on, argv, dir, the env  *)
(* pointer and every flag of *cmd keep their entry values, and so do in,   *)
(* out and err unless that stream is auto-piped; the parent's environment  *)
(* and working directory stay what they were; whether the call succeeds or *)
(* fails, and whatever the child does to its own copies.                   *)
(***************************************************************************)
C12_Frame ==
    /\ cmd.argv = cmd0.argv
    /\ cmd.dir = cmd0.dir
    /\ cmd.env = cmd0.env
    /\ cmd.no_stdin = cmd0.no_stdin
    /\ cmd.no_stdout = cmd0.no_stdout
    /\ cmd.no_stderr = cmd0.no_stderr
    /\ cmd.git_cmd = cmd0.git_cmd
    /\ cmd.stdout_to_stderr = cmd0.stdout_to_stderr
    /\ ~C3_AutoIn => cmd.in = cmd0.in
    /\ ~C3_AutoOut => cmd.out = cmd0.out
    /\ ~C3_AutoErr => cmd.err = cmd0.err
    /\ penv = InheritedEnv
    /\ pcwd = InheritedCwd

C12_Witness ==
    /\ code = Ret(0)
    /\ cmd.pid # cmd0.pid
    /\ cmd0.in = 3
    /\ cmd.out # cmd0.out
    /\ cmd0.no_stderr
    /\ cmd0.err < 0
    /\ ccmd.env # cmd.env
    /\ cenv # penv
    /\ ccwd # pcwd
    /\ cpc = "exec"

(***************************************************************************)
(* C13: when start_command has returned -ERR_RUN_COMMAND_PIPE or           *)
(* -ERR_RUN_COMMAND_FORK, cmd->in, cmd->out and cmd->err hold their entry  *)
(* values, none of them names a descriptor the call made and closed, and   *)
(* a second start_command on the struct would compute the need_in,         *)
(* need_out and need_err the first one did.                                *)
(***************************************************************************)
C13_RetryRecoverable ==
    code \in {Ret(-ERR_RUN_COMMAND_PIPE), Ret(-ERR_RUN_COMMAND_FORK)} =>
        /\ cmd.in = cmd0.in
        /\ cmd.out = cmd0.out
        /\ cmd.err = cmd0.err
        /\ cmd.in \notin {fdin[1], fdin[2]} \ {-1}
        /\ cmd.out \notin {fdout[1], fdout[2]} \ {-1}
        /\ cmd.err \notin {fderr[1], fderr[2]} \ {-1}
        /\ NeedIn(cmd) = NeedIn(cmd0)
        /\ NeedOut(cmd) = NeedOut(cmd0)
        /\ NeedErr(cmd) = NeedErr(cmd0)

(***************************************************************************)
(* C14: the values -ERR_RUN_COMMAND_FORK, _PIPE, _WAITPID,                 *)
(* _WAITPID_WRONG_PID, _WAITPID_SIGNAL and _WAITPID_NOEXIT are six         *)
(* different numbers, none of them is -N for an exit code N in 1..255, and *)
(* the value finish_command returns tells the cases apart: 0 only for a    *)
(* normal exit with code 0, -N in -255..-1 only for a normal exit with     *)
(* code N, and otherwise one of the system-level values.                   *)
(***************************************************************************)
C14_SystemErrors ==
    {-ERR_RUN_COMMAND_FORK, -ERR_RUN_COMMAND_PIPE, -ERR_RUN_COMMAND_WAITPID,
     -ERR_RUN_COMMAND_WAITPID_WRONG_PID, -ERR_RUN_COMMAND_WAITPID_SIGNAL,
     -ERR_RUN_COMMAND_WAITPID_NOEXIT}

C14_ExitedWith(n) ==
    /\ wlast.waiting = wpid
    /\ wlast.status % 128 = 0
    /\ (wlast.status \div 256) % 256 = n

C14_NoCollision ==
    /\ Cardinality(C14_SystemErrors) = 6
    /\ \A n \in 1..255 : -n \notin C14_SystemErrors
    /\ 0 \notin C14_SystemErrors
    /\ wret # NoRet =>
        /\ wret = Ret(0) <=> C14_ExitedWith(0)
        /\ \A n \in 1..255 : wret = Ret(-n) <=> C14_ExitedWith(n)
        /\ wret[1] \in (-255..0) \cup C14_SystemErrors

C14_Witness ==
    /\ wret = Ret(-255)
    /\ wlast.status = W_EXITCODE(255, 0)
    /\ weintr > 0

(***************************************************************************)
(* C15: die() is reached only in the process in which fork returned 0,     *)
(* after a failed chdir or a returned exec, and ends it; past its exec     *)
(* call the child is running the new program or has ended, so it never     *)
(* returns from start_command; once fork has succeeded the parent's        *)
(* start_command returns 0, whether or not the child has died; and neither *)
(* start_command, finish_command nor run_command returns                   *)
(* -ERR_RUN_COMMAND_EXEC.                                                  *)
(***************************************************************************)
C15_FatalIsolated ==
    /\ died =>
        /\ ccmd.pid = 0
        /\ cmd.pid > 0
        /\ cpc \in {"zombie", "reaped"}
        /\ cstatus = W_EXITCODE(DieStatus, 0)
        /\ ChdirDies(ccmd) \/ tried # {}
    /\ tried # {} => cpc \in {"running", "zombie", "reaped"}
    /\ (cpc \in {"zombie", "reaped"} /\ ~died) => tried # {}
    /\ cpc # "none" =>
        /\ cmd.pid > 0
        /\ code # NoRet => code = Ret(0)
        /\ ppc \in {"parent_close", "run_check", "waitpid", "done"}
    /\ code = Ret(0) => cpc # "none"
    /\ code # Ret(-ERR_RUN_COMMAND_EXEC)
    /\ fin # Ret(-ERR_RUN_COMMAND_EXEC)
    /\ run # Ret(-ERR_RUN_COMMAND_EXEC)

C15_Witness ==
    /\ died
    /\ tried = {"execvp"}
    /\ ~ChdirDies(ccmd)
    /\ code = Ret(0)
    /\ nwait = 1
    /\ run = Ret(-DieStatus)

(***************************************************************************)
(* C16: as long as every finish_command call is the first on its struct    *)
(* and is made after that struct's start_command returned 0, no            *)
(* finish_command returns -ERR_RUN_COMMAND_WAITPID_WRONG_PID, whatever     *)
(* other children the caller has and whether or not they have ended; when  *)
(* it reaps, it reaps the process its own launch forked.                   *)
(***************************************************************************)
C16_NoWrongPid ==
    (last.h # 0 /\ last.clean) =>
        /\ last.ok
        /\ ~last.again
        /\ last.ret # Ret(-ERR_RUN_COMMAND_WAITPID_WRONG_PID)
        /\ last.reaped \in {0, last.h}

C16_Witness ==
    /\ last.h # 0
    /\ last.clean
    /\ last.reaped = last.h
    /\ last.ret = Ret(-1)
    /\ \E q \in Pids : ptab[q].st = "zombie"

C16_Misuse ==
    /\ last.h # 0
    /\ ~last.ok
    /\ last.ret = Ret(-ERR_RUN_COMMAND_WAITPID_WRONG_PID)

(***************************************************************************)
(* C17: the child does its steps in this order.  Until stdin, stdout and   *)
(* stderr are wired and the pipe ends it does not use are closed, it has   *)
(* not changed directory; until it has changed directory it has applied no *)
(* environment entry; until it has applied every entry of cmd->env, in     *)
(* order, it has attempted no exec; it attempts one exec, execv_git_cmd    *)
(* if git_cmd is set and execvp if not, never both; and a child whose exec *)
(* returned has ended through die().                                       *)
(***************************************************************************)
C17_PipeEnds == {"in.r", "in.w", "out.r", "out.w", "err.r", "err.w"}

C17_Wired ==
    /\ cmd0.no_stdin => cfd[0] = "devnull"
    /\ C3_AutoIn => cfd[0] = "in.r"
    /\ cmd0.no_stdout => cfd[1] = "devnull"
    /\ C3_AutoOut => cfd[1] = "out.w"
    /\ cmd0.no_stderr => cfd[2] = "devnull"
    /\ C3_AutoErr => cfd[2] = "err.w"
    /\ \A fd \in Fds : fd > 2 => cfd[fd] \notin C17_PipeEnds

C17_Dir == IF cmd0.dir = NullDir THEN pcwd ELSE cmd0.dir

C17_ChildOrder ==
    /\ cpc \in {"stdin", "stdout", "stderr", "chdir"} =>
        /\ ccwd = pcwd
        /\ applied = <<>>
        /\ cenv = penv
        /\ tried = {}
    /\ (ccwd # pcwd /\ cpc \notin {"zombie", "reaped"}) => C17_Wired
    /\ cpc \in {"chdir", "env", "exec", "running"} => C17_Wired
    /\ applied # <<>> => ccwd = C17_Dir
    /\ cpc = "env" =>
        /\ ccwd = C17_Dir
        /\ applied = SubSeq(cmd0.env.arr, 1, ccmd.env.off)
        /\ tried = {}
    /\ cpc = "exec" =>
        /\ ccwd = C17_Dir
        /\ applied = cmd0.env.arr
        /\ tried = {}
    /\ tried # {} =>
        /\ ccwd = C17_Dir
        /\ applied = cmd0.env.arr
        /\ tried = {IF cmd0.git_cmd THEN "execv_git_cmd" ELSE "execvp"}
        /\ cpc \in {"running", "zombie", "reaped"}
        /\ cpc = "running" => ~died
        /\ cpc # "running" =>
            \/ died /\ cstatus = W_EXITCODE(DieStatus, 0)
            \/ ~died /\ cstatus \in ProgramStatuses

C17_Witness ==
    /\ cpc = "running"
    /\ cmd0.git_cmd
    /\ tried = {"execv_git_cmd"}
    /\ ccwd = "/work"
    /\ applied # <<>>
    /\ C3_AutoIn
    /\ C3_AutoOut
    /\ C3_AutoErr

(***************************************************************************)
(* C18: for each pipe capacity from 1 up and each producer that writes     *)
(* finitely many bytes and returns, with or without closing its            *)
(* descriptor, once start_async has returned 0 the caller that reads       *)
(* async->out to end-of-stream and then calls finish_async does read       *)
(* end-of-stream, and finish_async does return; and from the return of     *)
(* start_async on the caller holds no descriptor for the write end.        *)
(***************************************************************************)
C18_DrainThenReap ==
    /\ [](aret = Ret(0) => FdsOf(afd, "async.w") = {})
    /\ (aret = Ret(0)) ~> (eof /\ apc = "done" /\ afin # NoRet)

C18_Witness ==
    /\ apc = "done"
    /\ eof
    /\ afin = Ret(0)
    /\ ~pclose
    /\ cap = 1
    /\ Len(data) = MaxBytes
    /\ got = data

(***************************************************************************)
(* C19: when start_async fails, at pipe or at fork, it returns -1; no      *)
(* worker exists and the producer has not run; the caller's descriptors    *)
(* are those it had before the call, both pipe ends being closed again     *)
(* after a failed fork; and async->out has not been assigned.              *)
(***************************************************************************)
C19_AsyncStartFailure ==
    /\ apc = "failed" <=> aret \notin {NoRet, Ret(0)}
    /\ apc = "failed" =>
        /\ aret = Ret(-1)
        /\ kpc = "none"
        /\ kfd = [fd \in Fds |-> Closed]
        /\ towrite = data
        /\ buf = <<>>
        /\ got = <<>>
        /\ afd = StdFds
        /\ async.out = 0
        /\ pipe_out # NoPipe =>
            /\ async.pid = -1
            /\ ~IsOpen(afd, pipe_out[1])
            /\ ~IsOpen(afd, pipe_out[2])
            /\ FdsOf(afd, "async.r") \cup FdsOf(afd, "async.w") = {}

C19_Witness ==
    /\ apc = "failed"
    /\ pipe_out # NoPipe
    /\ async.pid = -1
    /\ aret = Ret(-1)
    /\ Len(data) > 0

(***************************************************************************)
(* C20: the struct run_command_v_opt, run_command_v_opt_cd and             *)
(* run_command_v_opt_cd_env hand to run_command has no_stdin, git_cmd and  *)
(* stdout_to_stderr equal to bits 1, 2 and 4 of opt, each whatever the     *)
(* other bits are, in = out = err = 0 and nothing else set but argv and    *)
(* the dir and env given; start_command on it makes no pipe and closes no  *)
(* descriptor of the parent; and the child runs on the parent's stdin,     *)
(* stdout and stderr, except stdin on the null device under no_stdin and   *)
(* stdout on the parent's stderr under stdout_to_stderr.                   *)
(***************************************************************************)
C20_Convenience ==
    ppc # "prepare" =>
        /\ cmd0.no_stdin = (call.opt % 2 = 1)
        /\ cmd0.git_cmd = (call.opt % 4 >= 2)
        /\ cmd0.stdout_to_stderr = (call.opt % 8 >= 4)
        /\ ~cmd0.no_stdout
        /\ ~cmd0.no_stderr
        /\ cmd0.in = 0 /\ cmd0.out = 0 /\ cmd0.err = 0
        /\ cmd0.dir = IF call.fn = "run_command_v_opt" THEN NullDir ELSE call.dir
        /\ cmd0.env = IF call.fn = "run_command_v_opt_cd_env" THEN call.env
                      ELSE NullEnv
        /\ cmd.in = 0 /\ cmd.out = 0 /\ cmd.err = 0
        /\ ~need_in /\ ~need_out /\ ~need_err
        /\ fdin = NoPipe /\ fdout = NoPipe /\ fderr = NoPipe
        /\ pfd = StdFds
        /\ cpc \in {"chdir", "env", "exec", "running"} =>
            /\ cfd[0] = IF cmd0.no_stdin THEN "devnull" ELSE "stdin0"
            /\ cfd[1] = IF cmd0.stdout_to_stderr THEN "stderr0" ELSE "stdout0"
            /\ cfd[2] = "stderr0"
            /\ \A fd \in Fds : fd > 2 => cfd[fd] = Closed

C20_Witness ==
    /\ ppc = "done"
    /\ call.fn = "run_command_v_opt_cd_env"
    /\ call.opt = 5
    /\ cmd0.no_stdin
    /\ ~cmd0.git_cmd
    /\ cmd0.stdout_to_stderr
    /\ cmd0.dir = "/work"
    /\ applied # <<>>
    /\ tried = {"execvp"}
    /\ code = Ret(0)
    /\ run = Ret(0)

====
